---- MODULE Spec2Model ----
(***************************************************************************)
(* A model of filesync (src/filesync/filesync_core.py, src/main.py): two   *)
(* directory trees, the two hash databases (.syncdb.json) kept at their    *)
(* roots, and successive invocations of FileSync(...).sync().              *)
(***************************************************************************)
EXTENDS Integers, Sequences, FiniteSets, TLC

\* How many invalid answers a single delete prompt is given before the
\* model stops feeding it more of them (the loop itself is unbounded).
MaxReprompts == 2

\* How many of the contents have their digest in the database files found
\* before the first run (the runs themselves record the digest of any file).
MaxCachedContents == 1

\* ------------------------------------------------------------------------
\* The universe: two physical directories, the relative paths in them, and
\* what a file at a path can be.
SrcDir == "S"
DestDir == "D"
Dirs == {SrcDir, DestDir}

Paths == {"a.txt", "b.txt"}

\* The name of the hash database file, and two paths below the root: a file
\* in a directory named .git, and a file named like the database in sub.
HASH_DB_FILENAME == ".syncdb.json"
NestedPaths == {".git/c.txt", "sub/.syncdb.json"}
AllPaths == Paths \cup NestedPaths

\* The order in which os.walk enumerates the files of a tree: the files of
\* the root, the database file among them, then those of its directories.
WalkOrder == <<".syncdb.json", "a.txt", "b.txt", ".git/c.txt", "sub/.syncdb.json">>

\* The names of the directories on the way from the root to a file, and the
\* file's own name.
DirNames(p) ==
    CASE p = ".git/c.txt" -> <<".git">>
      [] p = "sub/.syncdb.json" -> <<"sub">>
      [] OTHER -> <<>>

Basename(p) ==
    CASE p = ".git/c.txt" -> "c.txt"
      [] p = "sub/.syncdb.json" -> ".syncdb.json"
      [] OTHER -> p

\* The values IGNORED_DIRS can have: empty by default, or what a
\* local_config.py sets.
IgnoreSets == {{}, {".git"}}

Contents == {"hi", "bye"}
Absent == "<absent>"
\* A file that exists but cannot be opened for reading.
Unreadable == "<unreadable>"
FileStates == Contents \cup {Absent, Unreadable}

\* Python's None, which json writes as null.
None == "None"

\* hashlib.sha256(bytes).hexdigest(), tabulated for the contents of the model.
hexdigest(c) ==
    CASE c = "hi" -> "8f434346"
      [] c = "bye" -> "b49f425a"
      [] OTHER -> "e3b0c442"

Digests == {hexdigest(c) : c \in Contents}

\* str.lower() on the answers the model types at a prompt.
Lower(s) ==
    CASE s = "Y" -> "y"
      [] s = "N" -> "n"
      [] OTHER -> s

Answers == {"y", "Y", "n", "N", "x"}

Range(s) == {s[k] : k \in 1..Len(s)}

\* ------------------------------------------------------------------------
\* Python values held in memory.  A dict is a function on the set of its
\* keys; json.load can also hand back a value that is not a dict.
EmptyItems == [p \in {} |-> None]
PyDict(items) == [type |-> "dict", items |-> items]
PyList == [type |-> "list", items |-> EmptyItems]

\* The dicts over Paths with values in V.
DictsOver(V) == UNION {[K -> V] : K \in SUBSET Paths}

\* dict.get(key) with the default None.
dict_get(d, k) == IF k \in DOMAIN d THEN d[k] ELSE None

\* A test that takes only "" for a missing hash.
Truthy_unless_empty(v) == v # ""

\* Python truthiness of a hash value: None and "" are falsy.
Truthy(v) == v # None /\ v # ""

\* The keys of a dict built by a walk, in insertion order.
Keys(d) == SelectSeq(WalkOrder, LAMBDA p : p \in DOMAIN d)

\* ------------------------------------------------------------------------
\* The stored form of a hash database: the file is absent, is text that is
\* not JSON, is a JSON array, or is a JSON object, a set of members whose
\* values are JSON tokens (a string or null).
JsonNull == [t |-> "null", s |-> ""]
JsonString(s) == [t |-> "string", s |-> s]

json_token(v) == IF v = None THEN JsonNull ELSE JsonString(v)
json_value(tok) == IF tok.t = "null" THEN None ELSE tok.s

NoFile == [kind |-> "absent", members |-> {}]
GarbageFile == [kind |-> "garbage", members |-> {}]
ArrayFile == [kind |-> "array", members |-> {}]
ObjectFile(ms) == [kind |-> "object", members |-> ms]

\* json.dump(db, f, indent=2)
json_dump(db) ==
    ObjectFile({[key |-> k, value |-> json_token(db[k])] : k \in DOMAIN db})

\* json.load(f) on a file that parses.
json_load(file) ==
    IF file.kind = "array"
    THEN PyList
    ELSE PyDict([k \in {m.key : m \in file.members} |->
                    json_value((CHOOSE m \in file.members : m.key = k).value)])

\* The contents, in a fixed order, and the first n of them.
ContentOrder == <<"hi", "bye">>
FirstContents(n) == {ContentOrder[k] : k \in 1..(IF n < 2 THEN n ELSE 2)}

\* The hash database files a directory can hold before the first run.
InitDigests == {hexdigest(c) : c \in FirstContents(MaxCachedContents)}
InitDbFiles ==
    {NoFile, GarbageFile, ArrayFile} \cup {json_dump(d) : d \in DictsOver(InitDigests)}

\* ------------------------------------------------------------------------
\* State.
VARIABLES
    fs,              \* fs[dir][rel_path]: the data files of the two trees
    dbfile,          \* dbfile[dir]: the .syncdb.json at the root of dir
    pc,              \* where the current invocation of sync() stands
    restore,         \* self.restore
    scan_only,       \* self.scan_only
    src_hash_db,     \* self.src_hash_db, loaded by __init__
    dest_hash_db,    \* self.dest_hash_db, loaded by __init__
    warnings,        \* the directories whose database drew the corruption warning
    summary,         \* the summary returned by scan_changes
    src_files,       \* the logical source scan
    dest_files,      \* the logical destination scan
    updated_src_db,  \* sync's updated_src_db
    updated_dest_db, \* sync's updated_dest_db
    i,               \* position of the copy loop in src_files.items()
    j,               \* position of the delete loop in summary["deleted"]
    reprompts,       \* invalid answers given to the current delete prompt
    answer,          \* the last lower-cased answer read by input()
    fs0,             \* the trees when the current invocation started
    dbfile0,         \* the database files when the current invocation started
    copied,          \* the copy_file calls of this invocation, in order
    prompted,        \* the full paths prompt_delete was called with
    removed,         \* the full paths os.remove removed
    kept,            \* the relative paths a delete prompt answered 'n' kept
    prev,            \* how the previous invocation ended
    hashed,          \* the full paths the scans called get_file_hash with
    IGNORED_DIRS     \* config.IGNORED_DIRS

vars == <<fs, dbfile, pc, restore, scan_only, src_hash_db, dest_hash_db, warnings,
          summary, src_files, dest_files, updated_src_db, updated_dest_db, i, j,
          reprompts, answer, fs0, dbfile0, copied, prompted, removed, kept, prev, hashed, IGNORED_DIRS>>

\* ------------------------------------------------------------------------
\* The methods of FileSync as operators.

\* os.path.join(folder, rel_path)
Join(folder, rel_path) == <<folder, rel_path>>

\* get_file_hash: the digest of the bytes, or None when open/read raises.
get_file_hash(f, path) ==
    IF f[path[1]][path[2]] \in Contents
    THEN hexdigest(f[path[1]][path[2]])
    ELSE None

\* A load that takes every file it finds for a corrupted one.
load_hash_db_discards(file) == PyDict(EmptyItems)

\* load_hash_db: {} when the file is absent, {} and a warning when json.load
\* raises JSONDecodeError, otherwise whatever json.load returns.
load_hash_db(file) ==
    IF file.kind = "absent"
    THEN PyDict(EmptyItems)
    ELSE IF file.kind = "garbage"
         THEN PyDict(EmptyItems)
         ELSE json_load(file)

\* The warning branch of load_hash_db.
load_warns(file) == file.kind = "garbage"

\* A save that always writes the database at the physical source root.
save_hash_db_src_only(files, dir, db) == [files EXCEPT ![SrcDir] = json_dump(db)]

\* A save that keeps the members of the old file whose keys db lacks.
save_hash_db_merging(files, dir, db) ==
    [files EXCEPT ![dir] =
        ObjectFile(json_dump(db).members
                      \cup {m \in files[dir].members : m.key \notin DOMAIN db})]

\* save_hash_db: the file is overwritten with json.dump(db).
save_hash_db(files, dir, db) == [files EXCEPT ![dir] = json_dump(db)]

\* Whether the tree under folder has a file at rel_path; the database file
\* is one of the files of the root.
Exists(f, folder, rel_path) ==
    IF rel_path = HASH_DB_FILENAME
    THEN dbfile[folder].kind # "absent"
    ELSE f[folder][rel_path] # Absent

\* A walk whose dirs list is rebound, not changed in place: nothing is pruned.
Pruned_not_in_place(rel_path) == FALSE

\* os.walk does not descend into a directory whose name is in IGNORED_DIRS.
Pruned(rel_path) ==
    \E k \in 1..Len(DirNames(rel_path)) : DirNames(rel_path)[k] \in IGNORED_DIRS

\* A test for the database file that looks at the relative path.
is_db_file_at_root(rel_path) == rel_path = HASH_DB_FILENAME

\* scan_folder's test filename == HASH_DB_FILENAME.
is_db_file(rel_path) == Basename(rel_path) = HASH_DB_FILENAME

\* The files scan_folder goes on with under folder, in order.
Walk(f, folder) ==
    SelectSeq(WalkOrder,
              LAMBDA p : Exists(f, folder, p) /\ ~Pruned(p) /\ ~is_db_file(p))

\* scan_folder raises AttributeError at hash_db.get on the first file when
\* hash_db is not a dict.
scan_folder_raises(f, folder, hash_db) ==
    hash_db.type # "dict" /\ Walk(f, folder) # <<>>

\* The full paths scan_folder calls get_file_hash with.
scan_folder_hashed(f, folder, hash_db) ==
    {Join(folder, p) :
        p \in {q \in Range(Walk(f, folder)) : ~Truthy(dict_get(hash_db.items, q))}}

\* The hash scan_folder records for one file: the cached one when it is
\* truthy, otherwise get_file_hash.
scan_hash(f, folder, hash_db, rel_path) ==
    LET file_hash == dict_get(hash_db.items, rel_path)
    IN  IF ~Truthy(file_hash)
        THEN get_file_hash(f, Join(folder, rel_path))
        ELSE file_hash

\* scan_folder: rel_path -> {full_path, hash}.
scan_folder(f, folder, hash_db) ==
    [p \in Range(Walk(f, folder)) |->
        [full_path |-> Join(folder, p), hash |-> scan_hash(f, folder, hash_db, p)]]

\* The direction-resolved roots (scan_changes and sync resolve them alike).
LogicalSrcRoot(rst) == IF rst THEN DestDir ELSE SrcDir
\* A destination root that is not swapped in restore mode.
LogicalDestRoot_unswapped(rst) == DestDir

LogicalDestRoot(rst) == IF rst THEN SrcDir ELSE DestDir

\* The three lists of scan_changes.
\* A new list that forgets the test against the destination scan.
new_files_unfiltered(sf, df) == Keys(sf)

new_files(sf, df) ==
    SelectSeq(Keys(sf), LAMBDA p : p \notin DOMAIN df)

modified_files(sf, df) ==
    SelectSeq(Keys(sf), LAMBDA p : p \in DOMAIN df /\ sf[p].hash # df[p].hash)

\* A deleted list computed in both directions.
deleted_files_any_direction(rst, sf, df) ==
    SelectSeq(Keys(df), LAMBDA p : p \notin DOMAIN sf)

\* A deleted list that forgets the test against the source scan.
deleted_files_all_dest(rst, sf, df) == IF ~rst THEN Keys(df) ELSE <<>>

deleted_files(rst, sf, df) ==
    IF ~rst
    THEN SelectSeq(Keys(df), LAMBDA p : p \notin DOMAIN sf)
    ELSE <<>>

EmptySummary ==
    [src_count |-> 0, dest_count |-> 0, new |-> <<>>, modified |-> <<>>,
     deleted |-> <<>>]

\* scan_changes: the two scans and the summary, or an exception out of a scan.
scan_changes(f, rst, sdb, ddb) ==
    LET src_root == LogicalSrcRoot(rst)
        dest_root == LogicalDestRoot(rst)
        src_db == IF rst THEN ddb ELSE sdb
        dest_db == IF rst THEN sdb ELSE ddb
    IN  IF scan_folder_raises(f, src_root, src_db)
           \/ scan_folder_raises(f, dest_root, dest_db)
        THEN [raised |-> TRUE, summary |-> EmptySummary,
              src_files |-> EmptyItems, dest_files |-> EmptyItems]
        ELSE LET sf == scan_folder(f, src_root, src_db)
                 df == scan_folder(f, dest_root, dest_db)
             IN  [raised |-> FALSE,
                  summary |-> [src_count |-> Cardinality(DOMAIN sf),
                               dest_count |-> Cardinality(DOMAIN df),
                               new |-> new_files(sf, df),
                               modified |-> modified_files(sf, df),
                               deleted |-> deleted_files(rst, sf, df)],
                  src_files |-> sf,
                  dest_files |-> df]

\* The get_file_hash calls of scan_changes: those of the source scan, then
\* those of the destination scan, up to the scan that raises.
scan_changes_hashed(f, rst, sdb, ddb) ==
    LET src_root == LogicalSrcRoot(rst)
        dest_root == LogicalDestRoot(rst)
        src_db == IF rst THEN ddb ELSE sdb
        dest_db == IF rst THEN sdb ELSE ddb
    IN  IF scan_folder_raises(f, src_root, src_db)
        THEN {}
        ELSE scan_folder_hashed(f, src_root, src_db)
                \cup (IF scan_folder_raises(f, dest_root, dest_db)
                      THEN {}
                      ELSE scan_folder_hashed(f, dest_root, dest_db))

\* d[k] = v
dict_set(d, k, v) == [x \in DOMAIN d \cup {k} |-> IF x = k THEN v ELSE d[x]]

\* shutil.copy2 raises when the source cannot be opened for reading.
copy_raises(f, src_path) == f[src_path[1]][src_path[2]] \notin Contents

\* A copy with its two arguments swapped.
copy_file_reversed(f, src_path, dest_path) ==
    [f EXCEPT ![src_path[1]][src_path[2]] = f[dest_path[1]][dest_path[2]]]

\* copy_file: the target gets the bytes (and mode) of the source.
copy_file(f, src_path, dest_path) ==
    [f EXCEPT ![dest_path[1]][dest_path[2]] = f[src_path[1]][src_path[2]]]

\* os.remove(path)
os_remove(f, path) == [f EXCEPT ![path[1]][path[2]] = Absent]

\* A test that copies the new paths only.
needs_copy_new_only(sm, rel_path) == rel_path \in Range(sm.new)

\* sync's test for copying a path.
needs_copy(sm, rel_path) ==
    rel_path \in Range(sm.new) \/ rel_path \in Range(sm.modified)

\* A proceed prompt that takes everything but 'n' for a yes.
proceeds_unless_no(choice) == choice # "n"

\* sync's test on the lower-cased answer to "Proceed with sync?".
proceeds(choice) == choice = "y"

\* prompt_delete's two tests on the lower-cased answer.
\* A prompt that takes everything but 'n' for a yes.
confirms_delete_unless_no(ans) == ans # "n"

confirms_delete(ans) == ans = "y"
declines_delete(ans) == ans = "n"

\* Where sync stands after the summary: a scan that raised ends the run, a
\* scan-only run returns, any other run asks whether to proceed.
\* A sync that does not return after the summary of a scan-only run.
after_summary_no_return(raised, so) ==
    IF raised THEN "crashed" ELSE "confirm"

after_summary(raised, so) ==
    IF raised THEN "crashed" ELSE IF so THEN "scanned" ELSE "confirm"

\* A sync that goes from the copy loop straight to the saves.
AfterCopy_skips_delete(rst, sf, sm, k) ==
    IF k <= Len(Keys(sf)) THEN "copy" ELSE "save_src"

\* Where sync goes when the copy loop stands at position k.
AfterCopy(rst, sf, sm, k) ==
    IF k <= Len(Keys(sf))
    THEN "copy"
    ELSE IF ~rst /\ Len(sm.deleted) > 0 THEN "delete" ELSE "save_src"

\* Where sync goes when the delete loop stands at position k.
AfterDelete(sm, k) == IF k <= Len(sm.deleted) THEN "delete" ELSE "save_src"

\* ------------------------------------------------------------------------
\* The trees that hold g's files at the root and the nested files of n.
Tree(g, n) ==
    [d \in Dirs |-> [p \in AllPaths |-> IF p \in Paths THEN g[d][p] ELSE n[d][p]]]

NoNested == [d \in Dirs |-> [p \in NestedPaths |-> Absent]]

\* No run has started.
NoRunYet ==
    /\ hashed = {}
    /\ pc = "idle"
    /\ restore = FALSE
    /\ scan_only = FALSE
    /\ src_hash_db = PyDict(EmptyItems)
    /\ dest_hash_db = PyDict(EmptyItems)
    /\ warnings = {}
    /\ summary = EmptySummary
    /\ src_files = EmptyItems
    /\ dest_files = EmptyItems
    /\ updated_src_db = EmptyItems
    /\ updated_dest_db = EmptyItems
    /\ i = 1
    /\ j = 1
    /\ reprompts = 0
    /\ answer = ""
    /\ fs0 = fs
    /\ dbfile0 = dbfile
    /\ copied = <<>>
    /\ prompted = {}
    /\ removed = {}
    /\ kept = {}
    /\ prev = [backup_done |-> FALSE, kept |-> {}, copies |-> 0]

\* Initial states: any two trees of files at the root and any two database
\* files, nothing ignored, no run yet.
Init ==
    /\ fs \in {Tree(g, NoNested) : g \in [Dirs -> [Paths -> FileStates]]}
    /\ dbfile \in [Dirs -> InitDbFiles]
    /\ IGNORED_DIRS = {}
    /\ NoRunYet

\* Initial states with files below the root: a.txt at the root, a file
\* under .git and a file named like the database under sub, each there or
\* not in each tree; IGNORED_DIRS empty or naming .git; each database file
\* absent or written when the nested files were still scanned.
RootTrees == [Dirs -> [Paths -> {Absent, "hi"}]]
NestedTrees == [Dirs -> [NestedPaths -> {Absent} \cup Contents]]
TreeDbFiles == {NoFile, json_dump([p \in NestedPaths |-> hexdigest("hi")])}

InitTree ==
    /\ fs \in {Tree(g, n) : g \in {t \in RootTrees : \A d \in Dirs : t[d]["b.txt"] = Absent},
                             n \in NestedTrees}
    /\ dbfile \in [Dirs -> TreeDbFiles]
    /\ IGNORED_DIRS \in IgnoreSets
    /\ NoRunYet

\* ------------------------------------------------------------------------
\* Actions.

\* main() builds FileSync(src, dest, restore=rst, scan_only=so) and calls
\* sync(), which runs up to the summary: __init__ loads the two databases,
\* scan_changes scans and classifies, and a scan-only run returns.
Start(rst, so) ==
    /\ pc \in {"idle", "scanned", "cancelled", "crashed", "done"}
    /\ \E sdb \in {load_hash_db(dbfile[SrcDir])},
          ddb \in {load_hash_db(dbfile[DestDir])} :
          /\ src_hash_db' = sdb
          /\ dest_hash_db' = ddb
          /\ hashed' = scan_changes_hashed(fs, rst, sdb, ddb)
          /\ \E r \in {scan_changes(fs, rst, sdb, ddb)} :
                /\ summary' = r.summary
                /\ src_files' = r.src_files
                /\ dest_files' = r.dest_files
                /\ pc' = after_summary(r.raised, so)
    /\ restore' = rst
    /\ scan_only' = so
    /\ warnings' = {d \in Dirs : load_warns(dbfile[d])}
    /\ updated_src_db' = EmptyItems
    /\ updated_dest_db' = EmptyItems
    /\ i' = 1
    /\ j' = 1
    /\ reprompts' = 0
    /\ answer' = ""
    /\ fs0' = fs
    /\ dbfile0' = dbfile
    /\ copied' = <<>>
    /\ prompted' = {}
    /\ removed' = {}
    /\ kept' = {}
    /\ prev' = IF pc = "done" /\ ~restore
               THEN [backup_done |-> TRUE, kept |-> kept, copies |-> Len(copied)]
               ELSE [backup_done |-> FALSE, kept |-> {}, copies |-> 0]
    /\ UNCHANGED <<fs, dbfile, IGNORED_DIRS>>

\* "Proceed with sync?": anything but y cancels; y enters the copy loop.
Proceed(input) ==
    /\ pc = "confirm"
    /\ answer' = Lower(input)
    /\ pc' = IF ~proceeds(Lower(input))
             THEN "cancelled"
             ELSE AfterCopy(restore, src_files, summary, 1)
    /\ UNCHANGED <<fs, dbfile, restore, scan_only, src_hash_db, dest_hash_db,
                   warnings, summary, src_files, dest_files, updated_src_db,
                   updated_dest_db, i, j, reprompts, fs0, dbfile0, copied,
                   prompted, removed, kept, prev, hashed, IGNORED_DIRS>>

\* One iteration of the copy loop.  io_ok = FALSE is a copy that raises for
\* a reason on the target side (no space, no permission).
CopyStep(io_ok) ==
    /\ pc = "copy"
    /\ LET rel_path == Keys(src_files)[i]
           src_info == src_files[rel_path]
           src_path == src_info.full_path
           src_hash == src_info.hash
           dest_path == Join(LogicalDestRoot(restore), rel_path)
       IN  /\ updated_src_db' = dict_set(updated_src_db, rel_path, src_hash)
           /\ updated_dest_db' = dict_set(updated_dest_db, rel_path, src_hash)
           /\ IF needs_copy(summary, rel_path)
              THEN /\ copied' = Append(copied, [src |-> src_path, dest |-> dest_path])
                   /\ IF io_ok /\ ~copy_raises(fs, src_path)
                      THEN /\ fs' = copy_file(fs, src_path, dest_path)
                           /\ i' = i + 1
                           /\ pc' = AfterCopy(restore, src_files, summary, i + 1)
                      ELSE /\ pc' = "crashed"
                           /\ UNCHANGED <<fs, i>>
              ELSE /\ io_ok
                   /\ i' = i + 1
                   /\ pc' = AfterCopy(restore, src_files, summary, i + 1)
                   /\ UNCHANGED <<fs, copied>>
    /\ UNCHANGED <<dbfile, restore, scan_only, src_hash_db, dest_hash_db, warnings,
                   summary, src_files, dest_files, j, reprompts, answer, fs0,
                   dbfile0, prompted, removed, kept, prev, hashed, IGNORED_DIRS>>

\* One answer to the delete prompt of summary["deleted"][j].  io_ok = FALSE
\* is an os.remove that raises.
DeleteStep(input, io_ok) ==
    /\ pc = "delete"
    /\ LET rel_path == summary.deleted[j]
       IN  IF rel_path \notin DOMAIN dest_files
           THEN /\ j' = j + 1
                /\ pc' = AfterDelete(summary, j + 1)
                /\ UNCHANGED <<fs, reprompts, answer, prompted, removed, kept>>
           ELSE LET dest_path == dest_files[rel_path].full_path
                IN  /\ prompted' = prompted \cup {dest_path}
                    /\ answer' = Lower(input)
                    /\ IF confirms_delete(Lower(input))
                       THEN IF io_ok
                            THEN /\ fs' = os_remove(fs, dest_path)
                                 /\ removed' = removed \cup {dest_path}
                                 /\ j' = j + 1
                                 /\ reprompts' = 0
                                 /\ pc' = AfterDelete(summary, j + 1)
                                 /\ UNCHANGED kept
                            ELSE /\ pc' = "crashed"
                                 /\ UNCHANGED <<fs, removed, j, reprompts, kept>>
                       ELSE IF declines_delete(Lower(input))
                            THEN /\ io_ok
                                 /\ kept' = kept \cup {rel_path}
                                 /\ j' = j + 1
                                 /\ reprompts' = 0
                                 /\ pc' = AfterDelete(summary, j + 1)
                                 /\ UNCHANGED <<fs, removed>>
                            ELSE /\ io_ok
                                 /\ reprompts < MaxReprompts
                                 /\ reprompts' = reprompts + 1
                                 /\ UNCHANGED <<fs, removed, j, kept, pc>>
    /\ UNCHANGED <<dbfile, restore, scan_only, src_hash_db, dest_hash_db, warnings,
                   summary, src_files, dest_files, updated_src_db, updated_dest_db,
                   i, fs0, dbfile0, copied, prev, hashed, IGNORED_DIRS>>

\* save_hash_db(src_db_path, updated_src_db)
SaveSrc ==
    /\ pc = "save_src"
    /\ dbfile' = save_hash_db(dbfile, LogicalSrcRoot(restore), updated_src_db)
    /\ pc' = "save_dest"
    /\ UNCHANGED <<fs, restore, scan_only, src_hash_db, dest_hash_db, warnings,
                   summary, src_files, dest_files, updated_src_db, updated_dest_db,
                   i, j, reprompts, answer, fs0, dbfile0, copied, prompted, removed,
                   kept, prev, hashed, IGNORED_DIRS>>

\* save_hash_db(dest_db_path, updated_dest_db), after which sync returns.
SaveDest ==
    /\ pc = "save_dest"
    /\ dbfile' = save_hash_db(dbfile, LogicalDestRoot(restore), updated_dest_db)
    /\ pc' = "done"
    /\ UNCHANGED <<fs, restore, scan_only, src_hash_db, dest_hash_db, warnings,
                   summary, src_files, dest_files, updated_src_db, updated_dest_db,
                   i, j, reprompts, answer, fs0, dbfile0, copied, prompted, removed,
                   kept, prev, hashed, IGNORED_DIRS>>

Next ==
    \/ \E rst \in BOOLEAN, so \in BOOLEAN : Start(rst, so)
    \/ \E input \in Answers : Proceed(input)
    \/ \E io_ok \in BOOLEAN : CopyStep(io_ok)
    \/ \E input \in Answers, io_ok \in BOOLEAN : DeleteStep(input, io_ok)
    \/ SaveSrc
    \/ SaveDest

Spec == Init /\ [][Next]_vars

SpecTree == InitTree /\ [][Next]_vars

\* ------------------------------------------------------------------------
\* Properties.

\* scan_changes has returned and nothing else of the run has happened yet.
AfterScan == pc \in {"scanned", "confirm"}

\* The paths present in a tree.
Present(f, dir) == {p \in Paths : f[dir][p] # Absent}

\* The list of the paths of a set, in walk order.
InWalkOrder(S) == SelectSeq(WalkOrder, LAMBDA p : p \in S)

\* The scan of the current Backup run follows a completed Backup run.
SecondBackupScan == prev.backup_done /\ ~restore /\ AfterScan

\* C1 (as claimed): after a completed Backup run, the scan of the next
\* Backup run reports no new, no modified and no deleted path.
C1_SecondRunReportsNothing ==
    SecondBackupScan =>
        /\ summary.new = <<>>
        /\ summary.modified = <<>>
        /\ summary.deleted = <<>>

\* C1 (amended): after a completed Backup run, the scan of the next Backup
\* run reports no new and no modified path, and its deleted list is exactly
\* the paths that the first run's delete prompts kept with 'n'.
C1_SecondRunReportsOnlyKept ==
    SecondBackupScan =>
        /\ summary.new = <<>>
        /\ summary.modified = <<>>
        /\ summary.deleted = InWalkOrder(prev.kept)

C1_Witness ==
    /\ SecondBackupScan
    /\ prev.copies > 0
    /\ prev.kept # {}
    /\ summary.src_count > 0

\* C2: when a confirmed Backup run completes, every source file that was
\* missing from the destination or differed in bytes from the destination
\* file at the start of the run has the source's bytes in the destination.
C2_BackupCopiesEveryDifference ==
    (pc = "done" /\ ~restore) =>
        \A p \in Paths :
            (/\ fs0[SrcDir][p] \in Contents
             /\ fs0[DestDir][p] \in Contents \cup {Absent}
             /\ fs0[DestDir][p] # fs0[SrcDir][p])
            => fs[DestDir][p] = fs[SrcDir][p]

\* C3: in a restore run the deleted list is empty, prompt_delete is never
\* called, and no file that was in either tree at the start is gone.
C3_RestoreNeverDeletes ==
    (restore /\ pc # "idle") =>
        /\ summary.deleted = <<>>
        /\ prompted = {}
        /\ removed = {}
        /\ \A d \in Dirs : Present(fs0, d) \subseteq Present(fs, d)

C3_Witness ==
    /\ restore
    /\ pc = "done"
    /\ copied # <<>>
    /\ \E p \in Paths : fs[SrcDir][p] # Absent /\ fs[DestDir][p] = Absent

\* C4: a step removes a file only if it is the Backup run's prompt for that
\* very destination path, the path is in the destination scan and not in
\* the source scan, and the answer is 'y'; on 'n' nothing is removed and
\* the loop moves to the next path; on any other answer nothing is removed
\* and the loop stays at the same path; the loop leaves a path only on 'y'
\* or 'n'.
C4_DeletionSafety ==
    [][ /\ \A d \in Dirs, p \in Paths :
            (fs[d][p] # Absent /\ fs'[d][p] = Absent) =>
                /\ pc = "delete"
                /\ ~restore
                /\ d = DestDir
                /\ summary.deleted[j] = p
                /\ p \in DOMAIN dest_files
                /\ p \notin DOMAIN src_files
                /\ Join(d, p) \in prompted'
                /\ answer' = "y"
        /\ (pc = "delete" /\ answer' = "n") =>
                /\ fs' = fs
                /\ j' = j + 1
                /\ pc' \in {"delete", "save_src"}
        /\ (pc = "delete" /\ answer' \notin {"y", "n"}) =>
                /\ fs' = fs
                /\ j' = j
                /\ pc' = "delete"
        /\ (pc = "delete" /\ j' # j) => answer' \in {"y", "n"}
      ]_vars

C4_Witness ==
    /\ pc = "delete"
    /\ removed # {}
    /\ reprompts > 0
    /\ answer = "x"

\* C5: a scan-only run reads no answer, copies and removes nothing, prompts
\* for nothing and leaves both trees and both database files as they were,
\* and its summary lists as new the paths of the logical source tree that
\* the logical destination tree lacks, as deleted (Backup) the converse.
C5_ScanOnlyChangesNothing ==
    (scan_only /\ pc # "idle") =>
        /\ pc \in {"scanned", "crashed"}
        /\ fs = fs0
        /\ dbfile = dbfile0
        /\ copied = <<>>
        /\ prompted = {}
        /\ removed = {}
        /\ answer = ""
        /\ pc = "scanned" =>
            /\ Range(summary.new) =
                  Present(fs, LogicalSrcRoot(restore))
                      \ Present(fs, LogicalDestRoot(restore))
            /\ Range(summary.modified) \subseteq
                  Present(fs, SrcDir) \cap Present(fs, DestDir)
            /\ ~restore => Range(summary.deleted) =
                  Present(fs, DestDir) \ Present(fs, SrcDir)

C5_Witness ==
    /\ scan_only
    /\ pc = "scanned"
    /\ summary.new # <<>>
    /\ summary.modified # <<>>
    /\ dbfile[SrcDir].kind = "object"
    /\ dbfile[DestDir].kind = "absent"

\* The mapping rel_path -> hash of the logical source scan.
SourceView == [p \in DOMAIN src_files |-> src_files[p].hash]

\* C6: after a completed run, in either direction, each database file holds
\* exactly the hashes of the logical source scan, and what load_hash_db
\* reads back from it is that mapping; so the two files are equal.
C6_CachesConverge ==
    pc = "done" =>
        /\ \A d \in Dirs :
              /\ dbfile[d] = json_dump(SourceView)
              /\ load_hash_db(dbfile[d]) = PyDict(SourceView)
        /\ dbfile[SrcDir] = dbfile[DestDir]

C6_Witness ==
    /\ pc = "done"
    /\ restore
    /\ copied = <<>>
    /\ src_files # EmptyItems
    /\ \E d \in Dirs : \E m \in dbfile0[d].members : m.key \notin DOMAIN src_files

\* How many times a path occurs in a list.
Occurrences(list, p) == Cardinality({k \in 1..Len(list) : list[k] = p})

\* How many times a path occurs in the three lists together.
Listed(p) ==
    Occurrences(summary.new, p) + Occurrences(summary.modified, p)
        + Occurrences(summary.deleted, p)

\* C7: after scan_changes every path of either scan occurs at most once in
\* new, modified and deleted together (once: it has that class; not at
\* all: it is unchanged), and the lists hold paths of the scans only.
C7_ClassificationExclusive ==
    pc # "idle" =>
        /\ \A p \in DOMAIN src_files \cup DOMAIN dest_files : Listed(p) <= 1
        /\ Range(summary.new) \cup Range(summary.modified) \subseteq DOMAIN src_files
        /\ Range(summary.deleted) \subseteq DOMAIN dest_files

C7_Witness ==
    /\ AfterScan
    /\ summary.modified # <<>>
    /\ summary.deleted # <<>>

\* C8: a path in both scans with an unknown (None) hash on either side is
\* in modified.
C8_UnknownHashNeverMatches ==
    pc # "idle" =>
        \A p \in DOMAIN src_files \cap DOMAIN dest_files :
            (src_files[p].hash = None \/ dest_files[p].hash = None)
            => p \in Range(summary.modified)

\* C9: a run does not end on an exception once it has called copy_file or
\* prompt_delete: a failing copy or delete is passed over.
C9_PerFileFailureNeverAborts ==
    pc = "crashed" => (copied = <<>> /\ prompted = {})

\* C10: whatever the two database files hold, the databases __init__ loaded
\* are dicts, and a file that is there and is not a JSON object drew the
\* warning.
C10_LoadAlwaysGivesMapping ==
    pc # "idle" =>
        /\ src_hash_db.type = "dict"
        /\ dest_hash_db.type = "dict"
        /\ \A d \in Dirs :
              dbfile0[d].kind \in {"garbage", "array"} => d \in warnings

\* C11: a save followed by a load gives the mapping back: whenever sync
\* saves a database, what load_hash_db reads from the file just written is
\* the dict that was saved.
C11_SaveThenLoad ==
    [][ /\ (pc = "save_src") =>
              load_hash_db(dbfile'[LogicalSrcRoot(restore)]) = PyDict(updated_src_db)
        /\ (pc = "save_dest") =>
              load_hash_db(dbfile'[LogicalDestRoot(restore)]) = PyDict(updated_dest_db)
      ]_vars

C11_Witness ==
    /\ pc = "done"
    /\ DOMAIN updated_dest_db = Paths
    /\ updated_dest_db["a.txt"] \in Digests
    /\ updated_dest_db["b.txt"] \in Digests
    /\ updated_dest_db["a.txt"] # updated_dest_db["b.txt"]

\* C13: a step changes a database file only in the two save steps, which
\* come after the copy loop has passed every source path and (Backup) the
\* delete loop every deleted path; and at every point of a run before the
\* saves, also where it was cancelled or ended on an exception, both
\* database files are what they were when the run started.
C13_CachesWrittenLast ==
    [][ /\ (dbfile' # dbfile) =>
              /\ pc \in {"save_src", "save_dest"}
              /\ i > Len(Keys(src_files))
              /\ restore \/ j > Len(summary.deleted)
        /\ (pc' \in {"scanned", "confirm", "cancelled", "copy", "delete",
                     "save_src", "crashed"}) => dbfile' = dbfile0'
      ]_vars

C13_Witness ==
    /\ pc = "crashed"
    /\ fs # fs0
    /\ dbfile0[DestDir].kind = "object"

\* The relative paths copy_file was called for.
CopiedRels == {copied[k].src[2] : k \in 1..Len(copied)}

\* C15: every copy_file call of a run reads the logical source file of a
\* path that is in new or modified and writes the same relative path under
\* the physical source directory in Restore, the physical destination
\* directory in Backup; no path is copied twice; and a completed run has
\* copied every path of new and modified.
C15_CopySetAndTarget ==
    pc # "idle" =>
        /\ \A k \in 1..Len(copied) :
              /\ copied[k].src[2] \in Range(summary.new) \cup Range(summary.modified)
              /\ copied[k].src = src_files[copied[k].src[2]].full_path
              /\ copied[k].src[1] = (IF restore THEN DestDir ELSE SrcDir)
              /\ copied[k].dest =
                    <<IF restore THEN SrcDir ELSE DestDir, copied[k].src[2]>>
              /\ \A m \in 1..Len(copied) : copied[m].src = copied[k].src => m = k
        /\ pc = "done" =>
              CopiedRels = Range(summary.new) \cup Range(summary.modified)

C15_Witness ==
    /\ pc = "done"
    /\ restore
    /\ Len(copied) = 1
    /\ summary.src_count = 2

\* C16: new is the set of paths of the source scan that the destination
\* scan lacks, deleted is in Backup the set of paths of the destination
\* scan that the source scan lacks, and the two counts are the sizes of the
\* two scans.
C16_DiffDefinition ==
    pc # "idle" =>
        /\ Range(summary.new) = DOMAIN src_files \ DOMAIN dest_files
        /\ ~restore => Range(summary.deleted) = DOMAIN dest_files \ DOMAIN src_files
        /\ summary.src_count = Cardinality(DOMAIN src_files)
        /\ summary.dest_count = Cardinality(DOMAIN dest_files)

C16_Witness ==
    /\ AfterScan
    /\ ~restore
    /\ summary.new # <<>>
    /\ summary.deleted # <<>>
    /\ summary.src_count = 1

\* C18: the proceed prompt is reached exactly by the runs that are not
\* scan-only; an answer other than 'y' ends the run at once with no copy,
\* no delete prompt and both trees and both database files as they were
\* when the run started, and nothing changes them after the run has ended;
\* the answer 'y' goes on to the copy, delete or save steps.
C18_DeclinedProceedChangesNothing ==
    [][ /\ (pc' = "confirm") => ~scan_only'
        /\ (pc' = "scanned") => scan_only'
        /\ (pc = "confirm" /\ answer' # "y") =>
              /\ pc' = "cancelled"
              /\ fs' = fs0
              /\ dbfile' = dbfile0
              /\ copied' = <<>>
              /\ prompted' = {}
              /\ removed' = {}
        /\ (pc = "confirm" /\ answer' = "y") =>
              pc' \in {"copy", "delete", "save_src"}
        /\ (pc = "cancelled") => (fs' = fs /\ dbfile' = dbfile)
      ]_vars

C18_Witness ==
    /\ pc = "cancelled"
    /\ answer = "x"
    /\ summary.new # <<>>
    /\ summary.deleted # <<>>

\* C19: at every point of a run the data files under the logical source
\* root (the source directory in Backup, the destination directory in
\* Restore) are what they were when the run started.
C19_LogicalSourceUntouched ==
    pc # "idle" =>
        fs[LogicalSrcRoot(restore)] = fs0[LogicalSrcRoot(restore)]

C19_Witness ==
    /\ pc = "done"
    /\ ~restore
    /\ copied # <<>>
    /\ removed # {}
    /\ dbfile[SrcDir] # dbfile0[SrcDir]

\* A path lies beneath a directory whose name is in IGNORED_DIRS.
UnderIgnored(p) == \E dir \in Range(DirNames(p)) : dir \in IGNORED_DIRS

\* A path is in no scan and no list of the run, in no copy_file, hash or
\* prompt_delete call, and is no key of a database file the run has written.
Untouched(p) ==
    /\ p \notin DOMAIN src_files \cup DOMAIN dest_files
    /\ p \notin Range(summary.new) \cup Range(summary.modified)
                   \cup Range(summary.deleted)
    /\ \A k \in 1..Len(copied) : copied[k].src[2] # p /\ copied[k].dest[2] # p
    /\ \A d \in Dirs : Join(d, p) \notin prompted \cup removed \cup hashed
    /\ p \notin DOMAIN updated_src_db \cup DOMAIN updated_dest_db
    /\ pc \in {"save_dest", "done"} =>
          \A m \in dbfile[LogicalSrcRoot(restore)].members : m.key # p
    /\ pc = "done" =>
          \A m \in dbfile[LogicalDestRoot(restore)].members : m.key # p

\* C12: in a run of either direction a file beneath a directory named in
\* IGNORED_DIRS is untouched in the sense above, whatever its content, and
\* is itself left as it was.
C12_IgnoredDirsPruned ==
    pc # "idle" =>
        \A p \in AllPaths :
            UnderIgnored(p) =>
                /\ Untouched(p)
                /\ \A d \in Dirs : fs[d][p] = fs0[d][p]

C12_Witness ==
    /\ pc = "done"
    /\ IGNORED_DIRS = {".git"}
    /\ fs[SrcDir][".git/c.txt"] = "hi"
    /\ fs[DestDir][".git/c.txt"] = "bye"
    /\ copied # <<>>
    /\ dbfile0[SrcDir].kind = "object"

\* The cached hash the database file found at the start of the run holds
\* for a path of dir: the string of its member when that is not empty.
StoredHits(d, p) ==
    {m.value.s : m \in {x \in dbfile0[d].members :
                            x.key = p /\ x.value.t = "string" /\ x.value.s # ""}}

\* What hashing the file at a path of dir gives.
ActualHash(d, p) == IF fs0[d][p] \in Contents THEN hexdigest(fs0[d][p]) ELSE None

\* The cache-hit rule for the scan "files" of the tree under dir.
CacheHitRule(files, d) ==
    \A p \in DOMAIN files :
        IF StoredHits(d, p) # {}
        THEN /\ files[p].hash \in StoredHits(d, p)
             /\ Join(d, p) \notin hashed
        ELSE /\ Join(d, p) \in hashed
             /\ files[p].hash = ActualHash(d, p)

C17_DbFileNeverScanned ==
    pc # "idle" =>
        \A p \in AllPaths \cup {HASH_DB_FILENAME} :
            Basename(p) = HASH_DB_FILENAME =>
                /\ Untouched(p)
                /\ \A d \in Dirs : p \in AllPaths => fs[d][p] = fs0[d][p]

C17_Witness ==
    /\ pc = "done"
    /\ fs[SrcDir]["sub/.syncdb.json"] = "hi"
    /\ fs[DestDir]["sub/.syncdb.json"] = Absent
    /\ dbfile0[SrcDir].kind = "object"
    /\ dbfile0[DestDir].kind = "object"
    /\ copied # <<>>
    /\ removed # {}

\* C20: when a Backup run completes, a file its delete prompt kept with 'n'
\* is still in the destination tree and is no key of the destination
\* database; in the Backup run that follows it is hashed again and listed
\* in deleted again, and that run does not reach its saves without having
\* prompted for it again.
C20_KeptFileAskedAgain ==
    /\ (pc = "done" /\ ~restore) =>
          \A p \in kept :
              /\ fs[DestDir][p] # Absent
              /\ \A m \in dbfile[DestDir].members : m.key # p
    /\ (prev.backup_done /\ ~restore /\ pc \notin {"idle", "crashed"}) =>
          \A p \in prev.kept :
              /\ p \in Range(summary.deleted)
              /\ Join(DestDir, p) \in hashed
    /\ (prev.backup_done /\ ~restore /\ pc \in {"save_src", "save_dest", "done"}) =>
          \A p \in prev.kept : Join(DestDir, p) \in prompted

C20_Witness ==
    /\ prev.backup_done
    /\ ~restore
    /\ pc = "done"
    /\ prev.kept # {}
    /\ kept = prev.kept
    /\ \E m \in dbfile0[SrcDir].members : TRUE

====
